---- MODULE Spec2Model ----
(***************************************************************************)
(* The follow graph of follow-service: the users and follows tables of the *)
(* migration, and Repository.Follow / Repository.Unfollow run by           *)
(* concurrent workers against PostgreSQL (READ COMMITTED, the default of   *)
(* sql.DB.BeginTx(ctx, nil)).  A call is cut into one step per statement   *)
(* it sends to the store; the writes of an open transaction are kept in    *)
(* tx[p] and reach the tables only at COMMIT.                               *)
(***************************************************************************)
EXTENDS Integers, Sequences, FiniteSets, TLC

\* Bounds of the model.
NumUsers == 3
NumWorkers == 2
MaxCalls == 3
MaxSeqCalls == 3

\* Rows of table users (the migration seeds them; the core never deletes one).
Users == 1..NumUsers
\* Ids a caller may pass: the users' ids and one id that belongs to no user.
Ids == 1..(NumUsers + 1)
Edges == Ids \X Ids
Workers == 1..NumWorkers

VARIABLES
    follows,            \* table follows: committed rows per (follower_id, following_id)
    followers_count,    \* users.followers_count, committed
    following_count,    \* users.following_count, committed
    pc,                 \* per worker: the statement its call sends next, or "idle"
    call,               \* per worker: the call it runs (or ran last)
    result,             \* per worker: the error value its last call returned
    io,                 \* per worker: store accesses of the call so far
    tx,                 \* per worker: the open transaction's uncommitted writes
    calls,              \* calls started so far
    hist,               \* observer of sequential runs: the last calls, with the store before each
    created_at,         \* follows.created_at per row, as a rank in time (0: no row)
    reply,              \* what the last list query of the repository returned
    rpc,                \* the request the server handles (or handled last) and its answer
    sent                \* observer of the server's error path: the last two answers

vars == <<follows, followers_count, following_count, pc, call, result, io, tx, calls, hist,
          created_at, reply, rpc, sent>>
store == <<follows, followers_count, following_count>>

----------------------------------------------------------------------------
\* Error values.

Err(msg, cause) == [msg |-> msg, cause |-> cause]
\* A nil error.
NoError == Err("nil", "")
\* The call has not returned yet.
Pending == Err("pending", "")

ErrUserNotFound == Err("user not found", "")
ErrAlreadyFollowing == Err("already following this user", "")
ErrNotFollowing == Err("not following this user", "")
ErrSelfFollow == Err("cannot follow yourself", "")

\* fmt.Errorf(msg + ": %w", err)
Wrap(msg, err) == Err(msg, err.msg)

\* What the store answers (lib/pq renders a server error as "pq: " + message).
PqUniqueViolation == Err("pq: duplicate key value violates unique constraint \"follows_pkey\"", "")
PqCheckViolation == Err("pq: new row for relation \"follows\" violates check constraint \"no_self_follow\"", "")
PqForeignKeyViolation == Err("pq: insert or update on table \"follows\" violates foreign key constraint", "")
PqDeadlock == Err("pq: deadlock detected", "")
\* An unexpected storage failure (connection lost, statement timeout, ...).
DriverFailure == Err("driver: bad connection", "")

\* Mutant: the message of another constraint name is tested for.
isUniqueViolationWrongName(err) ==
    /\ err # NoError
    /\ \/ err.msg = "pq: duplicate key value violates unique constraint \"follows_follower_id_following_id_key\""
       \/ err.msg = "duplicate key value violates unique constraint \"follows_follower_id_following_id_key\""

isUniqueViolation(err) ==
    /\ err # NoError
    /\ \/ err.msg = "pq: duplicate key value violates unique constraint \"follows_pkey\""
       \/ err.msg = "duplicate key value violates unique constraint \"follows_pkey\""

----------------------------------------------------------------------------
\* The tables.

NoRows == [e \in Edges |-> 0]
ZeroCounts == [u \in Users |-> 0]

\* Mutant: table follows without its primary key.
InsertErrorNoPrimaryKey(e) ==
    IF e[1] = e[2] THEN PqCheckViolation
    ELSE IF e[1] \notin Users \/ e[2] \notin Users THEN PqForeignKeyViolation
    ELSE NoError

\* What INSERT INTO follows answers for row e against the committed table:
\* the CHECK constraint, then the primary key, then the foreign keys.
InsertError(e) ==
    IF e[1] = e[2] THEN PqCheckViolation
    ELSE IF follows[e] > 0 THEN PqUniqueViolation
    ELSE IF e[1] \notin Users \/ e[2] \notin Users THEN PqForeignKeyViolation
    ELSE NoError

EmptyTx == [open |-> FALSE, ins |-> {}, del |-> {}, locks |-> {},
            dFollowers |-> ZeroCounts, dFollowing |-> ZeroCounts]

NoCall == [op |-> "none", follower |-> 0, following |-> 0]
NoIO == [queries |-> 0, began |-> FALSE]

edge(p) == <<call[p].follower, call[p].following>>

\* Mutant: a missing row is not reported.
GetUserAlwaysFound(userID) ==
    [err |-> NoError,
     user |-> [ID |-> userID, FollowersCount |-> 0, FollowingCount |-> 0]]

\* SELECT ... FROM users WHERE id = $1
GetUser(userID) ==
    IF userID \in Users
    THEN [err |-> NoError,
          user |-> [ID |-> userID, FollowersCount |-> followers_count[userID],
                    FollowingCount |-> following_count[userID]]]
    ELSE [err |-> ErrUserNotFound,
          user |-> [ID |-> 0, FollowersCount |-> 0, FollowingCount |-> 0]]

----------------------------------------------------------------------------
\* Waiting on other transactions.

\* Mutant: an INSERT does not wait for an in-progress insert of its key.
BlockersNoInsertWait(p) ==
    LET others == Workers \ {p} IN
    CASE pc[p] = "u_delete" ->
            {q \in others : edge(p) \in tx[q].del}
      [] pc[p] \in {"f_inc_following", "u_dec_following"} ->
            {q \in others : call[p].follower \in tx[q].locks}
      [] pc[p] \in {"f_inc_followers", "u_dec_followers"} ->
            {q \in others : call[p].following \in tx[q].locks}
      [] OTHER -> {}

\* The workers whose open transaction makes p's next statement wait: an
\* INSERT waits for an in-progress insert or delete of the same key, a DELETE
\* for an in-progress delete of the row, an UPDATE for the row lock.
\* A waiting statement is a step not yet taken: when it runs it sees the
\* rows committed by then, as a READ COMMITTED statement does after its wait.
Blockers(p) ==
    LET others == Workers \ {p} IN
    CASE pc[p] = "f_insert" ->
            {q \in others : edge(p) \in tx[q].ins \cup tx[q].del}
      [] pc[p] = "u_delete" ->
            {q \in others : edge(p) \in tx[q].del}
      [] pc[p] \in {"f_inc_following", "u_dec_following"} ->
            {q \in others : call[p].follower \in tx[q].locks}
      [] pc[p] \in {"f_inc_followers", "u_dec_followers"} ->
            {q \in others : call[p].following \in tx[q].locks}
      [] OTHER -> {}

Blocked(p) == Blockers(p) # {}

RECURSIVE WaitsForWithin(_, _)
WaitsForWithin(S, n) ==
    IF n = 0 THEN S
    ELSE WaitsForWithin(S \cup UNION {Blockers(q) : q \in S}, n - 1)

\* A store without deadlock detection: nothing ever counts as a wait cycle.
DeadlockedNever(p) == FALSE

\* p waits, directly or through others, for itself.
Deadlocked(p) == p \in WaitsForWithin(Blockers(p), NumWorkers)

----------------------------------------------------------------------------
\* Returning from a call.

\* Mutant: the transaction is not rolled back when the call returns.
RollbackMissing(p) == tx

\* defer tx.Rollback(): the uncommitted writes and the row locks are dropped
\* (a no-op after a successful Commit, when nothing is left in tx[p]).
Rollback(p) == [tx EXCEPT ![p] = EmptyTx]

Return(p, err) ==
    /\ pc' = [pc EXCEPT ![p] = "idle"]
    /\ result' = [result EXCEPT ![p] = err]
    /\ tx' = Rollback(p)

Goto(p, label) ==
    /\ pc' = [pc EXCEPT ![p] = label]
    /\ UNCHANGED result

Query(p) == io' = [io EXCEPT ![p].queries = @ + 1]

\* The message the code wraps a failed statement in, by the statement.
FailMsg(label) ==
    CASE label \in {"f_get_follower", "f_get_following"} -> "failed to get user"
      [] label \in {"f_begin", "u_begin"} -> "failed to begin transaction"
      [] label = "f_insert" -> "failed to create follow"
      [] label = "u_delete" -> "failed to delete follow"
      [] label \in {"f_inc_following", "u_dec_following"} -> "failed to update following count"
      [] label \in {"f_inc_followers", "u_dec_followers"} -> "failed to update followers count"
      [] label \in {"f_commit", "u_commit"} -> "failed to commit transaction"
      [] OTHER -> "unreachable"

----------------------------------------------------------------------------
\* Statements inside a transaction.

\* UPDATE users SET <counter> = <counter> + d WHERE id = $1: a relative update
\* under the row's lock, held until the transaction ends; no row, no effect.
UpdateFollowing(t, id, d) ==
    IF id \in Users
    THEN [t EXCEPT !.locks = @ \cup {id}, !.dFollowing[id] = @ + d]
    ELSE t

\* Mutant: the UPDATE has no WHERE clause.
UpdateFollowersNoWhere(t, id, d) ==
    [t EXCEPT !.locks = Users, !.dFollowers = [u \in Users |-> @[u] + d]]

UpdateFollowers(t, id, d) ==
    IF id \in Users
    THEN [t EXCEPT !.locks = @ \cup {id}, !.dFollowers[id] = @ + d]
    ELSE t

\* Mutant: the statement is sent outside the transaction and commits at once.
AutocommitUpdateFollowing(p, id, d) ==
    /\ following_count' = IF id \in Users
                          THEN [following_count EXCEPT ![id] = @ + d]
                          ELSE following_count
    /\ UNCHANGED <<follows, followers_count, tx>>

\* tx.ExecContext of a counter update: the write stays in the transaction.
ExecUpdateFollowing(p, id, d) ==
    /\ tx' = [tx EXCEPT ![p] = UpdateFollowing(@, id, d)]
    /\ UNCHANGED store

\* Mutant: the second counter statement updates following_count too.
ExecUpdateFollowersWrongCounter(p, id, d) ==
    /\ tx' = [tx EXCEPT ![p] = UpdateFollowing(@, id, d)]
    /\ UNCHANGED store

ExecUpdateFollowers(p, id, d) ==
    /\ tx' = [tx EXCEPT ![p] = UpdateFollowers(@, id, d)]
    /\ UNCHANGED store

\* Mutant: COMMIT loses the deletes.
CommittedFollowsKeepsDeleted(t) ==
    [e \in Edges |-> follows[e] + (IF e \in t.ins THEN 1 ELSE 0)]

\* COMMIT: the transaction's writes reach the tables in one step.
\* (A COMMIT that returns an error is taken as not committed.)
CommittedFollows(t) ==
    [e \in Edges |-> (IF e \in t.del THEN 0 ELSE follows[e])
                     + (IF e \in t.ins THEN 1 ELSE 0)]

\* Mutant: the counter is written as the value read when the call arrived
\* plus the change (read-modify-write from application memory).
CommittedFollowersFromMemory(t) ==
    [u \in Users |-> IF t.dFollowers[u] # 0
                     THEN hist[1].pre.followers_count[u] + t.dFollowers[u]
                     ELSE followers_count[u]]

CommittedFollowers(t) == [u \in Users |-> followers_count[u] + t.dFollowers[u]]

CommittedFollowing(t) == [u \in Users |-> following_count[u] + t.dFollowing[u]]

Commit(p) ==
    /\ follows' = CommittedFollows(tx[p])
    /\ followers_count' = CommittedFollowers(tx[p])
    /\ following_count' = CommittedFollowing(tx[p])

----------------------------------------------------------------------------
\* Repository.Follow

\* Mutant: Follow without its self-follow test.
FollowNoSelfTest(p, followerID, followingID) ==
    /\ pc[p] = "idle"
    /\ calls' = calls + 1
    /\ call' = [call EXCEPT ![p] = [op |-> "Follow", follower |-> followerID,
                                    following |-> followingID]]
    /\ io' = [io EXCEPT ![p] = NoIO]
    /\ pc' = [pc EXCEPT ![p] = "f_get_follower"]
    /\ result' = [result EXCEPT ![p] = Pending]
    /\ UNCHANGED <<store, tx>>

\* The call arrives: the self-follow test comes before any store access.
Follow(p, followerID, followingID) ==
    /\ pc[p] = "idle"
    /\ calls' = calls + 1
    /\ call' = [call EXCEPT ![p] = [op |-> "Follow", follower |-> followerID,
                                    following |-> followingID]]
    /\ io' = [io EXCEPT ![p] = NoIO]
    /\ IF followerID = followingID
       THEN Return(p, ErrSelfFollow)
       ELSE /\ pc' = [pc EXCEPT ![p] = "f_get_follower"]
            /\ result' = [result EXCEPT ![p] = Pending]
            /\ UNCHANGED tx
    /\ UNCHANGED store

FollowGetFollower(p) ==
    /\ pc[p] = "f_get_follower"
    /\ Query(p)
    /\ LET r == GetUser(call[p].follower) IN
       IF r.err # NoError
       THEN Return(p, r.err)
       ELSE Goto(p, "f_get_following") /\ UNCHANGED tx
    /\ UNCHANGED <<store, call, calls>>

FollowGetFollowing(p) ==
    /\ pc[p] = "f_get_following"
    /\ Query(p)
    /\ LET r == GetUser(call[p].following) IN
       IF r.err # NoError
       THEN Return(p, r.err)
       ELSE Goto(p, "f_begin") /\ UNCHANGED tx
    /\ UNCHANGED <<store, call, calls>>

FollowBegin(p) ==
    /\ pc[p] = "f_begin"
    /\ io' = [io EXCEPT ![p].began = TRUE]
    /\ tx' = [tx EXCEPT ![p].open = TRUE]
    /\ Goto(p, "f_insert")
    /\ UNCHANGED <<store, call, calls>>

\* Mutant: the INSERT does not wait for an in-progress write of its key.
FollowInsertNoWait(p) ==
    /\ pc[p] = "f_insert"
    /\ Query(p)
    /\ LET err == InsertError(edge(p)) IN
       IF err # NoError
       THEN IF isUniqueViolation(err)
            THEN Return(p, ErrAlreadyFollowing)
            ELSE Return(p, Wrap("failed to create follow", err))
       ELSE /\ tx' = [tx EXCEPT ![p].ins = @ \cup {edge(p)}]
            /\ Goto(p, "f_inc_following")
    /\ UNCHANGED <<store, call, calls>>

FollowInsert(p) ==
    /\ pc[p] = "f_insert"
    /\ ~Blocked(p)
    /\ Query(p)
    /\ LET err == InsertError(edge(p)) IN
       IF err # NoError
       THEN IF isUniqueViolation(err)
            THEN Return(p, ErrAlreadyFollowing)
            ELSE Return(p, Wrap("failed to create follow", err))
       ELSE /\ tx' = [tx EXCEPT ![p].ins = @ \cup {edge(p)}]
            /\ Goto(p, "f_inc_following")
    /\ UNCHANGED <<store, call, calls>>

FollowIncFollowing(p) ==
    /\ pc[p] = "f_inc_following"
    /\ ~Blocked(p)
    /\ Query(p)
    /\ ExecUpdateFollowing(p, call[p].follower, 1)
    /\ Goto(p, "f_inc_followers")
    /\ UNCHANGED <<call, calls>>

FollowIncFollowers(p) ==
    /\ pc[p] = "f_inc_followers"
    /\ ~Blocked(p)
    /\ Query(p)
    /\ ExecUpdateFollowers(p, call[p].following, 1)
    /\ Goto(p, "f_commit")
    /\ UNCHANGED <<call, calls>>

FollowCommit(p) ==
    /\ pc[p] = "f_commit"
    /\ Query(p)
    /\ Commit(p)
    /\ Return(p, NoError)
    /\ UNCHANGED <<call, calls>>

----------------------------------------------------------------------------
\* Repository.Unfollow

Unfollow(p, followerID, followingID) ==
    /\ pc[p] = "idle"
    /\ calls' = calls + 1
    /\ call' = [call EXCEPT ![p] = [op |-> "Unfollow", follower |-> followerID,
                                    following |-> followingID]]
    /\ io' = [io EXCEPT ![p] = NoIO]
    /\ pc' = [pc EXCEPT ![p] = "u_begin"]
    /\ result' = [result EXCEPT ![p] = Pending]
    /\ UNCHANGED <<store, tx>>

UnfollowBegin(p) ==
    /\ pc[p] = "u_begin"
    /\ io' = [io EXCEPT ![p].began = TRUE]
    /\ tx' = [tx EXCEPT ![p].open = TRUE]
    /\ Goto(p, "u_delete")
    /\ UNCHANGED <<store, call, calls>>

\* Mutant: Unfollow without its test of RowsAffected.
UnfollowDeleteNoRowsTest(p) ==
    /\ pc[p] = "u_delete"
    /\ ~Blocked(p)
    /\ Query(p)
    /\ tx' = [tx EXCEPT ![p].del = @ \cup {edge(p)}]
    /\ Goto(p, "u_dec_following")
    /\ UNCHANGED <<store, call, calls>>

\* DELETE FROM follows WHERE follower_id = $1 AND following_id = $2, and the
\* test of RowsAffected: only committed rows are visible to it.
UnfollowDelete(p) ==
    /\ pc[p] = "u_delete"
    /\ ~Blocked(p)
    /\ Query(p)
    /\ LET rowsAffected == follows[edge(p)] IN
       IF rowsAffected = 0
       THEN Return(p, ErrNotFollowing)
       ELSE /\ tx' = [tx EXCEPT ![p].del = @ \cup {edge(p)}]
            /\ Goto(p, "u_dec_following")
    /\ UNCHANGED <<store, call, calls>>

UnfollowDecFollowing(p) ==
    /\ pc[p] = "u_dec_following"
    /\ ~Blocked(p)
    /\ Query(p)
    /\ ExecUpdateFollowing(p, call[p].follower, -1)
    /\ Goto(p, "u_dec_followers")
    /\ UNCHANGED <<call, calls>>

\* Mutant: the second decrement goes to the follower's row.
UnfollowDecFollowersWrongRow(p) ==
    /\ pc[p] = "u_dec_followers"
    /\ ~Blocked(p)
    /\ Query(p)
    /\ ExecUpdateFollowers(p, call[p].follower, -1)
    /\ Goto(p, "u_commit")
    /\ UNCHANGED <<call, calls>>

UnfollowDecFollowers(p) ==
    /\ pc[p] = "u_dec_followers"
    /\ ~Blocked(p)
    /\ Query(p)
    /\ ExecUpdateFollowers(p, call[p].following, -1)
    /\ Goto(p, "u_commit")
    /\ UNCHANGED <<call, calls>>

UnfollowCommit(p) ==
    /\ pc[p] = "u_commit"
    /\ Query(p)
    /\ Commit(p)
    /\ Return(p, NoError)
    /\ UNCHANGED <<call, calls>>

----------------------------------------------------------------------------
\* Failures of the store.

\* The statement p sends fails for a reason outside the program: the code
\* wraps the error and returns it, and the deferred Rollback discards the
\* transaction.  GetUser's wrapped error is returned by Follow as it is.
StorageFailure(p) ==
    /\ pc[p] # "idle"
    /\ IF pc[p] \in {"f_begin", "u_begin"} THEN UNCHANGED io ELSE Query(p)
    /\ Return(p, Wrap(FailMsg(pc[p]), DriverFailure))
    /\ UNCHANGED <<store, call, calls>>

\* PostgreSQL's deadlock detector aborts the statement of a transaction that
\* waits in a cycle; the code returns the wrapped error.
DeadlockAbort(p) ==
    /\ pc[p] # "idle"
    /\ Deadlocked(p)
    /\ Query(p)
    /\ Return(p, Wrap(FailMsg(pc[p]), PqDeadlock))
    /\ UNCHANGED <<store, call, calls>>

\* The same, with the error the store or the driver answers.
StorageFailureWith(p, err) ==
    /\ pc[p] # "idle"
    /\ IF pc[p] \in {"f_begin", "u_begin"} THEN UNCHANGED io ELSE Query(p)
    /\ Return(p, Wrap(FailMsg(pc[p]), err))
    /\ UNCHANGED <<store, call, calls>>

\* What a statement answers once the caller's context is cancelled or past
\* its deadline: the context's error, or database/sql's error for a
\* transaction that its context watcher has already rolled back.
ContextCanceled == Err("context canceled", "")
ContextDeadlineExceeded == Err("context deadline exceeded", "")
SqlTxDone == Err("sql: transaction has already been committed or rolled back", "")

CancelErrors == {ContextCanceled, ContextDeadlineExceeded, SqlTxDone}

\* The caller's context ends while p's transaction is open, at any statement
\* up to and including COMMIT (waiting for a lock or not): the statement
\* fails, the code wraps the error and returns, the transaction rolls back.
Cancel(p, err) ==
    /\ pc[p] # "idle"
    /\ tx[p].open
    /\ Query(p)
    /\ Return(p, Wrap(FailMsg(pc[p]), err))
    /\ UNCHANGED <<store, call, calls>>

----------------------------------------------------------------------------
\* Concurrent workers, with storage failures.

\* No list query made, no request handled.  (created_at is followed where the
\* list queries are checked; no statement of Follow or Unfollow reads it.)
NoReply == [op |-> "none", userID |-> 0, limit |-> 0, offset |-> 0,
            users |-> << >>, total |-> 0, err |-> NoError]
NoRpc == [method |-> "none", req |-> [a |-> 0, b |-> 0, limit |-> 0, offset |-> 0],
          phase |-> "done", called |-> FALSE, passed |-> [limit |-> 0, offset |-> 0],
          code |-> "OK", msg |-> "", logs |-> {}]

Aside ==
    /\ created_at = [e \in Edges |-> 0]
    /\ reply = NoReply
    /\ rpc = NoRpc
    /\ sent = << >>

\* A step of the repository's Follow and Unfollow alone.
Quiet == UNCHANGED <<hist, created_at, reply, rpc, sent>>

Init ==
    /\ follows = NoRows
    /\ followers_count = ZeroCounts
    /\ following_count = ZeroCounts
    /\ pc = [p \in Workers |-> "idle"]
    /\ call = [p \in Workers |-> NoCall]
    /\ result = [p \in Workers |-> NoError]
    /\ io = [p \in Workers |-> NoIO]
    /\ tx = [p \in Workers |-> EmptyTx]
    /\ calls = 0
    /\ hist = << >>
    /\ Aside

Next ==
    \E p \in Workers :
        \/ \E a, b \in Ids : calls < MaxCalls /\ Follow(p, a, b) /\ Quiet
        \/ \E a, b \in Ids : calls < MaxCalls /\ Unfollow(p, a, b) /\ Quiet
        \/ FollowGetFollower(p) /\ Quiet
        \/ FollowGetFollowing(p) /\ Quiet
        \/ FollowBegin(p) /\ Quiet
        \/ FollowInsert(p) /\ Quiet
        \/ FollowIncFollowing(p) /\ Quiet
        \/ FollowIncFollowers(p) /\ Quiet
        \/ FollowCommit(p) /\ Quiet
        \/ UnfollowBegin(p) /\ Quiet
        \/ UnfollowDelete(p) /\ Quiet
        \/ UnfollowDecFollowing(p) /\ Quiet
        \/ UnfollowDecFollowers(p) /\ Quiet
        \/ UnfollowCommit(p) /\ Quiet
        \/ StorageFailure(p) /\ Quiet
        \/ DeadlockAbort(p) /\ Quiet

Spec == Init /\ [][Next]_vars

----------------------------------------------------------------------------
\* Sequential runs without storage failures: one worker, one call after the
\* other.  hist keeps the last two calls, each with the committed store at
\* the moment the call arrived.

SeqWorker == CHOOSE p \in Workers : TRUE

Snapshot == [follows |-> follows, followers_count |-> followers_count,
             following_count |-> following_count]

LastTwo(h) == IF Len(h) > 2 THEN Tail(h) ELSE h

Observe(p) ==
    /\ hist' = IF pc[p] = "idle"
               THEN LastTwo(Append(hist, [call |-> call'[p], pre |-> Snapshot,
                                          res |-> result'[p]]))
               ELSE [hist EXCEPT ![Len(hist)].res = result'[p]]
    /\ UNCHANGED <<created_at, reply, rpc, sent>>

NextSeq ==
    \/ \E a, b \in Ids : calls < MaxSeqCalls /\ Follow(SeqWorker, a, b) /\ Observe(SeqWorker)
    \/ \E a, b \in Ids : calls < MaxSeqCalls /\ Unfollow(SeqWorker, a, b) /\ Observe(SeqWorker)
    \/ FollowGetFollower(SeqWorker) /\ Observe(SeqWorker)
    \/ FollowGetFollowing(SeqWorker) /\ Observe(SeqWorker)
    \/ FollowBegin(SeqWorker) /\ Observe(SeqWorker)
    \/ FollowInsert(SeqWorker) /\ Observe(SeqWorker)
    \/ FollowIncFollowing(SeqWorker) /\ Observe(SeqWorker)
    \/ FollowIncFollowers(SeqWorker) /\ Observe(SeqWorker)
    \/ FollowCommit(SeqWorker) /\ Observe(SeqWorker)
    \/ UnfollowBegin(SeqWorker) /\ Observe(SeqWorker)
    \/ UnfollowDelete(SeqWorker) /\ Observe(SeqWorker)
    \/ UnfollowDecFollowing(SeqWorker) /\ Observe(SeqWorker)
    \/ UnfollowDecFollowers(SeqWorker) /\ Observe(SeqWorker)
    \/ UnfollowCommit(SeqWorker) /\ Observe(SeqWorker)

SpecSeq == Init /\ [][NextSeq]_vars

----------------------------------------------------------------------------
\* The race of two Follow calls for the same pair, without storage failures:
\* both calls have just arrived, in any store sequential calls can build
\* that holds no row for the pair.  hist keeps that store.
\* (No lock-wait cycle can form between two calls for one pair: the second
\* INSERT waits while holding no lock, so DeadlockAbort has no step here.)

RaceWorkers == {1, 2}

\* The pairs a follows row can hold: two distinct users.
UserEdges == {e \in Users \X Users : e[1] # e[2]}

RECURSIVE CountRows(_, _)
\* SELECT COUNT( * ) over the rows of table f with a key in S.
CountRows(f, S) ==
    IF S = {} THEN 0
    ELSE LET e == CHOOSE x \in S : TRUE IN f[e] + CountRows(f, S \ {e})

RowsTo(f, u) == CountRows(f, {e \in Edges : e[2] = u})
RowsFrom(f, u) == CountRows(f, {e \in Edges : e[1] = u})

InitRace ==
    \E a, b \in Users : \E S \in SUBSET (UserEdges \ {<<a, b>>}) :
        /\ a # b
        /\ follows = [e \in Edges |-> IF e \in S THEN 1 ELSE 0]
        /\ followers_count = [u \in Users |-> RowsTo(follows, u)]
        /\ following_count = [u \in Users |-> RowsFrom(follows, u)]
        /\ pc = [p \in Workers |-> IF p \in RaceWorkers THEN "f_get_follower" ELSE "idle"]
        /\ call = [p \in Workers |->
                     IF p \in RaceWorkers
                     THEN [op |-> "Follow", follower |-> a, following |-> b]
                     ELSE NoCall]
        /\ result = [p \in Workers |-> IF p \in RaceWorkers THEN Pending ELSE NoError]
        /\ io = [p \in Workers |-> NoIO]
        /\ tx = [p \in Workers |-> EmptyTx]
        /\ calls = Cardinality(RaceWorkers)
        /\ hist = << [call |-> [op |-> "Follow", follower |-> a, following |-> b],
                      pre |-> Snapshot, res |-> Pending] >>
        /\ Aside

NextRace ==
    \E p \in RaceWorkers :
        \/ FollowGetFollower(p) /\ Quiet
        \/ FollowGetFollowing(p) /\ Quiet
        \/ FollowBegin(p) /\ Quiet
        \/ FollowInsert(p) /\ Quiet
        \/ FollowIncFollowing(p) /\ Quiet
        \/ FollowIncFollowers(p) /\ Quiet
        \/ FollowCommit(p) /\ Quiet

SpecRace == InitRace /\ [][NextRace]_vars

----------------------------------------------------------------------------
\* Two concurrent calls, each a Follow or an Unfollow for any pair of distinct
\* users, without storage failures: both calls have just arrived, in a store
\* that holds any of the rows of the two pairs and of the first pair's
\* reverse.  hist keeps that store.

PairCalls == {[op |-> o, follower |-> e[1], following |-> e[2]] :
                o \in {"Follow", "Unfollow"}, e \in UserEdges}

PairRows(c1, c2) ==
    {<<c1.follower, c1.following>>, <<c1.following, c1.follower>>,
     <<c2.follower, c2.following>>}

\* Where a call that has just arrived stands: Follow for two distinct ids
\* reads the follower first, Unfollow begins its transaction.
Arrived(c) == IF c.op = "Follow" THEN "f_get_follower" ELSE "u_begin"

InitPair ==
    \E c1, c2 \in PairCalls : \E S \in SUBSET PairRows(c1, c2) :
        LET cs == <<c1, c2>> IN
        /\ follows = [e \in Edges |-> IF e \in S THEN 1 ELSE 0]
        /\ followers_count = [u \in Users |-> RowsTo(follows, u)]
        /\ following_count = [u \in Users |-> RowsFrom(follows, u)]
        /\ pc = [p \in Workers |-> IF p \in RaceWorkers THEN Arrived(cs[p]) ELSE "idle"]
        /\ call = [p \in Workers |-> IF p \in RaceWorkers THEN cs[p] ELSE NoCall]
        /\ result = [p \in Workers |-> IF p \in RaceWorkers THEN Pending ELSE NoError]
        /\ io = [p \in Workers |-> NoIO]
        /\ tx = [p \in Workers |-> EmptyTx]
        /\ calls = Cardinality(RaceWorkers)
        /\ hist = << [call |-> c1, pre |-> Snapshot, res |-> Pending] >>
        /\ Aside

NextPair ==
    \E p \in RaceWorkers :
        \/ FollowGetFollower(p) /\ Quiet
        \/ FollowGetFollowing(p) /\ Quiet
        \/ FollowBegin(p) /\ Quiet
        \/ FollowInsert(p) /\ Quiet
        \/ FollowIncFollowing(p) /\ Quiet
        \/ FollowIncFollowers(p) /\ Quiet
        \/ FollowCommit(p) /\ Quiet
        \/ UnfollowBegin(p) /\ Quiet
        \/ UnfollowDelete(p) /\ Quiet
        \/ UnfollowDecFollowing(p) /\ Quiet
        \/ UnfollowDecFollowers(p) /\ Quiet
        \/ UnfollowCommit(p) /\ Quiet
        \/ DeadlockAbort(p) /\ Quiet

SpecPair == InitPair /\ [][NextPair]_vars

\* The two calls under fair scheduling: a worker whose next statement can run
\* (or whose waiting statement the deadlock detector can abort) does run it.
\* Each goroutine is scheduled by the Go runtime and each statement is answered
\* by its own PostgreSQL backend; the detector runs once a lock wait has lasted
\* deadlock_timeout.  No caller cancels.
SpecPairFair ==
    /\ InitPair
    /\ [][NextPair]_vars
    /\ \A p \in RaceWorkers : WF_vars(NextPair /\ pc'[p] # pc[p])

\* The same two calls, whose callers may cancel them while a transaction is open.
NextCancel ==
    \/ NextPair
    \/ \E p \in RaceWorkers : \E err \in CancelErrors : Cancel(p, err) /\ Quiet

SpecCancel == InitPair /\ [][NextCancel]_vars

\* What call c does and returns when it runs alone, start to end, on store st.
Applied(st, a, b, d) ==
    [follows |-> [st.follows EXCEPT ![<<a, b>>] = @ + d],
     followers_count |-> [st.followers_count EXCEPT ![b] = @ + d],
     following_count |-> [st.following_count EXCEPT ![a] = @ + d]]

RunAlone(st, c) ==
    LET a == c.follower
        b == c.following
    IN  IF c.op = "Follow"
        THEN IF a = b THEN [res |-> ErrSelfFollow, st |-> st]
             ELSE IF a \notin Users \/ b \notin Users THEN [res |-> ErrUserNotFound, st |-> st]
             ELSE IF st.follows[<<a, b>>] > 0 THEN [res |-> ErrAlreadyFollowing, st |-> st]
             ELSE [res |-> NoError, st |-> Applied(st, a, b, 1)]
        ELSE IF st.follows[<<a, b>>] = 0 THEN [res |-> ErrNotFollowing, st |-> st]
             ELSE [res |-> NoError, st |-> Applied(st, a, b, -1)]

----------------------------------------------------------------------------
\* The list queries of the repository.

Min(a, b) == IF a <= b THEN a ELSE b
Max(a, b) == IF a >= b THEN a ELSE b

\* A list query runs without a fault, or one of its two statements fails for
\* a reason outside the program.
NoFault == [at |-> "none", err |-> NoError]
StorageErrors == {DriverFailure, ContextDeadlineExceeded}

\* ORDER BY f.created_at DESC over the rows S.  (Two rows of one list carry
\* different timestamps here: each is the start time of the transaction that
\* inserted it.)
RECURSIVE NewestFirst(_)
NewestFirst(S) ==
    IF S = {} THEN << >>
    ELSE LET e == CHOOSE x \in S : \A y \in S : created_at[y] <= created_at[x]
         IN  <<e>> \o NewestFirst(S \ {e})

\* LIMIT $n OFFSET $m over an ordered result.
LimitOffset(rows, limit, offset) ==
    SubSeq(rows, offset + 1, Min(Len(rows), offset + limit))

\* PostgreSQL rejects a negative LIMIT or OFFSET.
QueryError(limit, offset) ==
    IF limit < 0 THEN Err("pq: LIMIT must not be negative", "")
    ELSE IF offset < 0 THEN Err("pq: OFFSET must not be negative", "")
    ELSE NoError

\* Mutant: the row is read as an open transaction has changed it so far
\* (READ UNCOMMITTED as the standard allows it).
ScanUserDirty(id) ==
    LET open == {p \in Workers : tx[p].open}
        row == GetUser(id).user
    IN  IF open = {} THEN row
        ELSE LET p == CHOOSE q \in open : TRUE
             IN  [row EXCEPT !.FollowersCount = @ + tx[p].dFollowers[id],
                             !.FollowingCount = @ + tx[p].dFollowing[id]]

\* rows.Scan of a users row.
ScanUser(id) == GetUser(id).user

Failed(msg, err) == [users |-> << >>, total |-> 0, err |-> Wrap(msg, err)]

\* Mutant: the page is ordered oldest first.
GetFollowersOldestFirst(userID, limit, offset, f) ==
    LET rows == {e \in Edges : e[2] = userID /\ follows[e] > 0}
        qerr == IF f.at = "rows" THEN f.err ELSE QueryError(limit, offset)
    IN  IF f.at = "count" THEN Failed("failed to count followers", f.err)
        ELSE IF qerr # NoError THEN Failed("failed to get followers", qerr)
        ELSE LET newest == NewestFirst(rows)
                 oldest == [i \in 1..Len(newest) |-> newest[Len(newest) + 1 - i]]
                 page == LimitOffset(oldest, limit, offset)
             IN  [users |-> [i \in 1..Len(page) |-> ScanUser(page[i][1])],
                  total |-> RowsTo(follows, userID),
                  err |-> NoError]

\* Repository.GetFollowers: SELECT COUNT( * ) of the rows with following_id =
\* userID, then the users joined on follower_id, newest row first.
GetFollowers(userID, limit, offset, f) ==
    LET rows == {e \in Edges : e[2] = userID /\ follows[e] > 0}
        qerr == IF f.at = "rows" THEN f.err ELSE QueryError(limit, offset)
    IN  IF f.at = "count" THEN Failed("failed to count followers", f.err)
        ELSE IF qerr # NoError THEN Failed("failed to get followers", qerr)
        ELSE LET page == LimitOffset(NewestFirst(rows), limit, offset)
             IN  [users |-> [i \in 1..Len(page) |-> ScanUser(page[i][1])],
                  total |-> RowsTo(follows, userID),
                  err |-> NoError]

\* Mutant: the list call looks the user up first and reports an unknown id.
GetFollowingChecksUser(userID, limit, offset, f) ==
    LET rows == {e \in Edges : e[1] = userID /\ follows[e] > 0}
        qerr == IF f.at = "rows" THEN f.err ELSE QueryError(limit, offset)
    IN  IF GetUser(userID).err # NoError
        THEN [users |-> << >>, total |-> 0, err |-> GetUser(userID).err]
        ELSE IF f.at = "count" THEN Failed("failed to count following", f.err)
        ELSE IF qerr # NoError THEN Failed("failed to get following", qerr)
        ELSE LET page == LimitOffset(NewestFirst(rows), limit, offset)
             IN  [users |-> [i \in 1..Len(page) |-> ScanUser(page[i][2])],
                  total |-> RowsFrom(follows, userID),
                  err |-> NoError]

\* Repository.GetFollowing: the same over the rows with follower_id = userID,
\* joined on following_id.
GetFollowing(userID, limit, offset, f) ==
    LET rows == {e \in Edges : e[1] = userID /\ follows[e] > 0}
        qerr == IF f.at = "rows" THEN f.err ELSE QueryError(limit, offset)
    IN  IF f.at = "count" THEN Failed("failed to count following", f.err)
        ELSE IF qerr # NoError THEN Failed("failed to get following", qerr)
        ELSE LET page == LimitOffset(NewestFirst(rows), limit, offset)
             IN  [users |-> [i \in 1..Len(page) |-> ScanUser(page[i][2])],
                  total |-> RowsFrom(follows, userID),
                  err |-> NoError]

\* Repository.ListUsers: SELECT COUNT( * ) FROM users, then the users by id.
ListUsers(limit, offset, f) ==
    LET qerr == IF f.at = "rows" THEN f.err ELSE QueryError(limit, offset)
    IN  IF f.at = "count" THEN Failed("failed to count users", f.err)
        ELSE IF qerr # NoError THEN Failed("failed to list users", qerr)
        ELSE LET page == LimitOffset([i \in 1..NumUsers |-> i], limit, offset)
             IN  [users |-> [i \in 1..Len(page) |-> ScanUser(page[i])],
                  total |-> Cardinality(Users),
                  err |-> NoError]

\* reply: the query's arguments and what the repository returned.
Reply(op, userID, limit, offset, r) ==
    [op |-> op, userID |-> userID, limit |-> limit, offset |-> offset,
     users |-> r.users, total |-> r.total, err |-> r.err]

CallGetFollowers(userID, limit, offset) ==
    /\ reply.op = "none"
    /\ reply' = Reply("GetFollowers", userID, limit, offset,
                      GetFollowers(userID, limit, offset, NoFault))
    /\ UNCHANGED <<store, pc, call, result, io, tx, calls, hist, created_at, rpc, sent>>

CallGetFollowing(userID, limit, offset) ==
    /\ reply.op = "none"
    /\ reply' = Reply("GetFollowing", userID, limit, offset,
                      GetFollowing(userID, limit, offset, NoFault))
    /\ UNCHANGED <<store, pc, call, result, io, tx, calls, hist, created_at, rpc, sent>>

\* One list query alone, on a store at rest: any rows between users, at
\* most MaxRows of them, inserted in any order, the counters as the calls
\* that inserted them left them.
MaxRows == 2
EngineLimits == (-1)..NumUsers
EngineOffsets == (-1)..NumUsers

InitRead ==
    \E S \in SUBSET UserEdges :
        /\ Cardinality(S) <= MaxRows
        /\ \E rank \in [S -> 1..Cardinality(S)] :
              /\ \A x, y \in S : x # y => rank[x] # rank[y]
              /\ created_at = [e \in Edges |-> IF e \in S THEN rank[e] ELSE 0]
        /\ follows = [e \in Edges |-> IF e \in S THEN 1 ELSE 0]
        /\ followers_count = [u \in Users |-> RowsTo(follows, u)]
        /\ following_count = [u \in Users |-> RowsFrom(follows, u)]
        /\ pc = [p \in Workers |-> "idle"]
        /\ call = [p \in Workers |-> NoCall]
        /\ result = [p \in Workers |-> NoError]
        /\ io = [p \in Workers |-> NoIO]
        /\ tx = [p \in Workers |-> EmptyTx]
        /\ calls = 0
        /\ hist = << >>
        /\ reply = NoReply
        /\ rpc = NoRpc
        /\ sent = << >>

NextRead ==
    \/ \E u \in Ids, l \in EngineLimits, o \in EngineOffsets : CallGetFollowers(u, l, o)
    \/ \E u \in Ids, l \in EngineLimits, o \in EngineOffsets : CallGetFollowing(u, l, o)

SpecRead == InitRead /\ [][NextRead]_vars

----------------------------------------------------------------------------
\* The gRPC server (package handler): one request at a time, MaxRpcCalls
\* requests in a run (calls counts them).

DefaultLimit == 20
MaxLimit == 100

\* What a caller may send.
ReqIds == (-1)..(NumUsers + 1)
\* (limit, offset) of a list request: limits below, at the ends of and above
\* the accepted range, offsets below, at and above 0.
ReqWindows == {<<-1, -1>>, <<0, 0>>, <<1, 1>>, <<MaxLimit, 0>>, <<MaxLimit + 1, -1>>}
\* The faults of a list query while the server is followed.
ServerFaults == {NoFault, [at |-> "count", err |-> DriverFailure],
                 [at |-> "rows", err |-> ContextDeadlineExceeded]}
MaxRpcCalls == 2

\* status.Error(code, msg)
Status(code, msg) == [code |-> code, msg |-> msg]
OK == Status("OK", "")

\* errors.Is: the error or the one it wraps is the target.
ErrorsIs(err, target) == err = target \/ err.cause = target.msg

\* Mutant: not following is answered with the status of an unknown user.
mapErrorOneNotFound(err) ==
    IF ErrorsIs(err, ErrUserNotFound) THEN Status("NotFound", "user not found")
    ELSE IF ErrorsIs(err, ErrAlreadyFollowing)
    THEN Status("AlreadyExists", "already following this user")
    ELSE IF ErrorsIs(err, ErrNotFollowing) THEN Status("NotFound", "user not found")
    ELSE IF ErrorsIs(err, ErrSelfFollow) THEN Status("InvalidArgument", "cannot follow yourself")
    ELSE Status("Internal", "internal server error")

mapError(err) ==
    IF ErrorsIs(err, ErrUserNotFound) THEN Status("NotFound", "user not found")
    ELSE IF ErrorsIs(err, ErrAlreadyFollowing)
    THEN Status("AlreadyExists", "already following this user")
    ELSE IF ErrorsIs(err, ErrNotFollowing) THEN Status("NotFound", "not following this user")
    ELSE IF ErrorsIs(err, ErrSelfFollow) THEN Status("InvalidArgument", "cannot follow yourself")
    ELSE Status("Internal", "internal server error")

\* Mutant: the repository's error text is sent to the caller.
listUsersErrorWithText(err) == Status("Internal", err.msg)

\* ListUsers answers any error of the repository itself.
listUsersError(err) == Status("Internal", "failed to list users")

\* if limit <= 0 || limit > 100 { limit = 20 }
ClampLimit(limit) == IF limit <= 0 \/ limit > MaxLimit THEN DefaultLimit ELSE limit

\* Mutant: a negative offset is passed on.
ClampOffsetMissing(offset) == offset

\* if offset < 0 { offset = 0 }
ClampOffset(offset) == IF offset < 0 THEN 0 ELSE offset

Request(a, b, limit, offset) == [a |-> a, b |-> b, limit |-> limit, offset |-> offset]
NoPassed == [limit |-> 0, offset |-> 0]

\* The request is answered.
Answer(method, req, called, passed, st, logs) ==
    [method |-> method, req |-> req, phase |-> "done", called |-> called,
     passed |-> passed, code |-> st.code, msg |-> st.msg, logs |-> logs]

\* The request waits for the repository's call to return.
Delegated(method, req) ==
    [method |-> method, req |-> req, phase |-> "engine", called |-> TRUE,
     passed |-> NoPassed, code |-> "", msg |-> "", logs |-> {}]

\* FollowServiceServer.Follow, up to its call of the repository.
ServerFollow(followerID, followingID) ==
    /\ rpc.phase = "done"
    /\ IF followerID <= 0 \/ followingID <= 0
       THEN /\ rpc' = Answer("Follow", Request(followerID, followingID, 0, 0), FALSE, NoPassed,
                             Status("InvalidArgument", "invalid user IDs"), {})
            /\ calls' = calls + 1
            /\ UNCHANGED <<store, pc, call, result, io, tx>>
       ELSE /\ Follow(SeqWorker, followerID, followingID)
            /\ rpc' = Delegated("Follow", Request(followerID, followingID, 0, 0))
    /\ reply' = NoReply
    /\ UNCHANGED <<hist, created_at, sent>>

\* FollowServiceServer.Follow, from the return of the repository's call.
ServerFollowReturn ==
    /\ rpc.phase = "engine"
    /\ rpc.method = "Follow"
    /\ pc[SeqWorker] = "idle"
    /\ rpc' = IF result[SeqWorker] # NoError
              THEN [rpc EXCEPT !.phase = "done",
                               !.code = mapError(result[SeqWorker]).code,
                               !.msg = mapError(result[SeqWorker]).msg]
              ELSE [rpc EXCEPT !.phase = "done", !.code = "OK",
                               !.logs = {[level |-> "info", msg |-> "user followed successfully"]}]
    /\ UNCHANGED <<store, pc, call, result, io, tx, calls, hist, created_at, reply, sent>>

\* FollowServiceServer.Unfollow, up to its call of the repository.
ServerUnfollow(followerID, followingID) ==
    /\ rpc.phase = "done"
    /\ IF followerID <= 0 \/ followingID <= 0
       THEN /\ rpc' = Answer("Unfollow", Request(followerID, followingID, 0, 0), FALSE, NoPassed,
                             Status("InvalidArgument", "invalid user IDs"), {})
            /\ calls' = calls + 1
            /\ UNCHANGED <<store, pc, call, result, io, tx>>
       ELSE /\ Unfollow(SeqWorker, followerID, followingID)
            /\ rpc' = Delegated("Unfollow", Request(followerID, followingID, 0, 0))
    /\ reply' = NoReply
    /\ UNCHANGED <<hist, created_at, sent>>

\* FollowServiceServer.Unfollow, from the return of the repository's call.
ServerUnfollowReturn ==
    /\ rpc.phase = "engine"
    /\ rpc.method = "Unfollow"
    /\ pc[SeqWorker] = "idle"
    /\ rpc' = IF result[SeqWorker] # NoError
              THEN [rpc EXCEPT !.phase = "done",
                               !.code = mapError(result[SeqWorker]).code,
                               !.msg = mapError(result[SeqWorker]).msg]
              ELSE [rpc EXCEPT !.phase = "done", !.code = "OK",
                               !.logs = {[level |-> "info", msg |-> "user unfollowed successfully"]}]
    /\ UNCHANGED <<store, pc, call, result, io, tx, calls, hist, created_at, reply, sent>>

\* Mutant: only a negative id is refused.
ServerGetUserNegativeOnly(userID, f) ==
    /\ rpc.phase = "done"
    /\ IF userID < 0
       THEN rpc' = Answer("GetUser", Request(userID, 0, 0, 0), FALSE, NoPassed,
                          Status("InvalidArgument", "invalid user ID"), {})
       ELSE LET err == IF f # NoError THEN Wrap("failed to get user", f)
                       ELSE GetUser(userID).err
            IN  rpc' = Answer("GetUser", Request(userID, 0, 0, 0), TRUE, NoPassed,
                              IF err # NoError THEN mapError(err) ELSE OK, {})
    /\ reply' = NoReply
    /\ calls' = calls + 1
    /\ UNCHANGED <<store, pc, call, result, io, tx, hist, created_at, sent>>

\* FollowServiceServer.GetUser; f is the fault of the repository's query,
\* NoError for none.
ServerGetUser(userID, f) ==
    /\ rpc.phase = "done"
    /\ IF userID <= 0
       THEN rpc' = Answer("GetUser", Request(userID, 0, 0, 0), FALSE, NoPassed,
                          Status("InvalidArgument", "invalid user ID"), {})
       ELSE LET err == IF f # NoError THEN Wrap("failed to get user", f)
                       ELSE GetUser(userID).err
            IN  rpc' = Answer("GetUser", Request(userID, 0, 0, 0), TRUE, NoPassed,
                              IF err # NoError THEN mapError(err) ELSE OK, {})
    /\ reply' = NoReply
    /\ calls' = calls + 1
    /\ UNCHANGED <<store, pc, call, result, io, tx, hist, created_at, sent>>

\* FollowServiceServer.GetFollowers
ServerGetFollowers(userID, limit, offset, f) ==
    /\ rpc.phase = "done"
    /\ IF userID <= 0
       THEN /\ rpc' = Answer("GetFollowers", Request(userID, 0, limit, offset), FALSE, NoPassed,
                             Status("InvalidArgument", "invalid user ID"), {})
            /\ reply' = NoReply
       ELSE LET l == ClampLimit(limit)
                o == ClampOffset(offset)
                r == GetFollowers(userID, l, o, f)
            IN  /\ reply' = Reply("GetFollowers", userID, l, o, r)
                /\ rpc' = Answer("GetFollowers", Request(userID, 0, limit, offset), TRUE,
                                 [limit |-> l, offset |-> o],
                                 IF r.err # NoError THEN mapError(r.err) ELSE OK, {})
    /\ calls' = calls + 1
    /\ UNCHANGED <<store, pc, call, result, io, tx, hist, created_at, sent>>

\* FollowServiceServer.GetFollowing
ServerGetFollowing(userID, limit, offset, f) ==
    /\ rpc.phase = "done"
    /\ IF userID <= 0
       THEN /\ rpc' = Answer("GetFollowing", Request(userID, 0, limit, offset), FALSE, NoPassed,
                             Status("InvalidArgument", "invalid user ID"), {})
            /\ reply' = NoReply
       ELSE LET l == ClampLimit(limit)
                o == ClampOffset(offset)
                r == GetFollowing(userID, l, o, f)
            IN  /\ reply' = Reply("GetFollowing", userID, l, o, r)
                /\ rpc' = Answer("GetFollowing", Request(userID, 0, limit, offset), TRUE,
                                 [limit |-> l, offset |-> o],
                                 IF r.err # NoError THEN mapError(r.err) ELSE OK, {})
    /\ calls' = calls + 1
    /\ UNCHANGED <<store, pc, call, result, io, tx, hist, created_at, sent>>

\* FollowServiceServer.ListUsers
ServerListUsers(limit, offset, f) ==
    /\ rpc.phase = "done"
    /\ LET l == ClampLimit(limit)
           o == ClampOffset(offset)
           r == ListUsers(l, o, f)
       IN  /\ reply' = Reply("ListUsers", 0, l, o, r)
           /\ rpc' = Answer("ListUsers", Request(0, 0, limit, offset), TRUE,
                            [limit |-> l, offset |-> o],
                            IF r.err # NoError THEN listUsersError(r.err) ELSE OK, {})
    /\ calls' = calls + 1
    /\ UNCHANGED <<store, pc, call, result, io, tx, hist, created_at, sent>>

\* created_at DEFAULT CURRENT_TIMESTAMP: a row committed by a call that runs
\* after all others is newer than every row in the table.
Newest == CHOOSE n \in 0..(NumUsers * NumUsers) :
              /\ \A e \in Edges : created_at[e] <= n
              /\ n = 0 \/ \E e \in Edges : created_at[e] = n

Stamp ==
    created_at' = [e \in Edges |-> IF follows'[e] = 0 THEN 0
                                   ELSE IF follows[e] = 0 THEN Newest + 1
                                   ELSE created_at[e]]

\* A step of the repository's call inside a request.
Inside == Stamp /\ UNCHANGED <<hist, reply, rpc, sent>>

NextRPC ==
    \/ \E a, b \in ReqIds : calls < MaxRpcCalls /\ ServerFollow(a, b)
    \/ ServerFollowReturn
    \/ \E a, b \in ReqIds : calls < MaxRpcCalls /\ ServerUnfollow(a, b)
    \/ ServerUnfollowReturn
    \/ \E u \in ReqIds, f \in {NoError} \cup StorageErrors :
           calls < MaxRpcCalls /\ ServerGetUser(u, f)
    \/ \E u \in ReqIds, w \in ReqWindows, f \in ServerFaults :
           calls < MaxRpcCalls /\ ServerGetFollowers(u, w[1], w[2], f)
    \/ \E u \in ReqIds, w \in ReqWindows, f \in ServerFaults :
           calls < MaxRpcCalls /\ ServerGetFollowing(u, w[1], w[2], f)
    \/ \E w \in ReqWindows, f \in ServerFaults :
           calls < MaxRpcCalls /\ ServerListUsers(w[1], w[2], f)
    \/ FollowGetFollower(SeqWorker) /\ Inside
    \/ FollowGetFollowing(SeqWorker) /\ Inside
    \/ FollowBegin(SeqWorker) /\ Inside
    \/ FollowInsert(SeqWorker) /\ Inside
    \/ FollowIncFollowing(SeqWorker) /\ Inside
    \/ FollowIncFollowers(SeqWorker) /\ Inside
    \/ FollowCommit(SeqWorker) /\ Inside
    \/ UnfollowBegin(SeqWorker) /\ Inside
    \/ UnfollowDelete(SeqWorker) /\ Inside
    \/ UnfollowDecFollowing(SeqWorker) /\ Inside
    \/ UnfollowDecFollowers(SeqWorker) /\ Inside
    \/ UnfollowCommit(SeqWorker) /\ Inside
    \/ \E err \in StorageErrors : StorageFailureWith(SeqWorker, err) /\ Inside

SpecRPC == Init /\ [][NextRPC]_vars

----------------------------------------------------------------------------
\* The server's error path alone: the repository has returned err to the
\* method, and the method answers.  sent keeps the last two answers.

FollowFailMsgs == {"failed to get user", "failed to begin transaction", "failed to create follow",
                   "failed to update following count", "failed to update followers count",
                   "failed to commit transaction"}
UnfollowFailMsgs == {"failed to begin transaction", "failed to delete follow",
                     "failed to update following count", "failed to update followers count",
                     "failed to commit transaction"}
AllStorageErrors == StorageErrors \cup {PqDeadlock, ContextCanceled}

Wrapped(msgs, errs) == {Wrap(m, e) : m \in msgs, e \in errs}

\* The errors each method of the repository returns.
Returns(method) ==
    CASE method = "Follow" ->
            {ErrSelfFollow, ErrUserNotFound, ErrAlreadyFollowing}
                \cup Wrapped(FollowFailMsgs, AllStorageErrors)
      [] method = "Unfollow" ->
            {ErrNotFollowing} \cup Wrapped(UnfollowFailMsgs, AllStorageErrors)
      [] method = "GetUser" ->
            {ErrUserNotFound} \cup Wrapped({"failed to get user"}, AllStorageErrors)
      [] method = "GetFollowers" ->
            Wrapped({"failed to count followers", "failed to get followers",
                     "failed to scan follower"}, AllStorageErrors)
      [] method = "GetFollowing" ->
            Wrapped({"failed to count following", "failed to get following",
                     "failed to scan following"}, AllStorageErrors)
      [] method = "ListUsers" ->
            Wrapped({"failed to count users", "failed to list users",
                     "failed to scan user"}, AllStorageErrors)

Methods == {"Follow", "Unfollow", "GetUser", "GetFollowers", "GetFollowing", "ListUsers"}

\* if err != nil { return nil, ... } of each method.
ErrorStatus(method, err) ==
    IF method = "ListUsers" THEN listUsersError(err) ELSE mapError(err)

ServerError(method, err) ==
    /\ sent' = LastTwo(Append(sent, [method |-> method, err |-> err,
                                     status |-> ErrorStatus(method, err)]))
    /\ UNCHANGED <<store, pc, call, result, io, tx, calls, hist, created_at, reply, rpc>>

NextErr == \E method \in Methods : \E err \in Returns(method) : ServerError(method, err)

SpecErr == Init /\ [][NextErr]_vars

----------------------------------------------------------------------------
\* Read queries beside a transaction: one Follow or Unfollow call runs, and may
\* be cancelled, while another goroutine makes one read call.  Each SELECT is
\* a statement of its own on r.db (no transaction): under READ COMMITTED it
\* reads the rows committed when it starts.  A list call is two statements,
\* and the transaction may commit between them.

Writer == SeqWorker

\* Between the two statements of a list call reply holds the count, and the
\* error is still to come.
Counted(op, userID, limit, offset, total) ==
    Reply(op, userID, limit, offset, [users |-> << >>, total |-> total, err |-> Pending])

ListQuery(op, userID, limit, offset) ==
    IF op = "GetFollowers" THEN GetFollowers(userID, limit, offset, NoFault)
    ELSE GetFollowing(userID, limit, offset, NoFault)

\* Repository.GetUser called on its own: one SELECT of the users row.
QueryUser(userID) ==
    /\ reply.op = "none"
    /\ reply' = Reply("GetUser", userID, 0, 0,
                      [users |-> IF GetUser(userID).err = NoError
                                 THEN <<ScanUser(userID)>> ELSE << >>,
                       total |-> 0,
                       err |-> GetUser(userID).err])
    /\ UNCHANGED <<store, pc, call, result, io, tx, calls, hist, created_at, rpc, sent>>

\* The first statement of GetFollowers / GetFollowing: SELECT COUNT( * ).
ListCount(op, userID, limit, offset) ==
    /\ reply.op = "none"
    /\ reply' = Counted(op, userID, limit, offset,
                        ListQuery(op, userID, limit, offset).total)
    /\ UNCHANGED <<store, pc, call, result, io, tx, calls, hist, created_at, rpc, sent>>

\* The second statement: the page query, its rows scanned, and the return.
ListPage ==
    /\ reply.op \in {"GetFollowers", "GetFollowing"}
    /\ reply.err = Pending
    /\ LET r == ListQuery(reply.op, reply.userID, reply.limit, reply.offset)
       IN  reply' = [reply EXCEPT !.users = r.users, !.err = r.err]
    /\ UNCHANGED <<store, pc, call, result, io, tx, calls, hist, created_at, rpc, sent>>

InitMix ==
    \E c \in PairCalls : \E S \in SUBSET UserEdges :
        /\ Cardinality(S) <= MaxRows
        /\ \E rank \in [S -> 1..Cardinality(S)] :
              /\ \A x, y \in S : x # y => rank[x] # rank[y]
              /\ created_at = [e \in Edges |-> IF e \in S THEN rank[e] ELSE 0]
        /\ follows = [e \in Edges |-> IF e \in S THEN 1 ELSE 0]
        /\ followers_count = [u \in Users |-> RowsTo(follows, u)]
        /\ following_count = [u \in Users |-> RowsFrom(follows, u)]
        /\ pc = [p \in Workers |-> IF p = Writer THEN Arrived(c) ELSE "idle"]
        /\ call = [p \in Workers |-> IF p = Writer THEN c ELSE NoCall]
        /\ result = [p \in Workers |-> IF p = Writer THEN Pending ELSE NoError]
        /\ io = [p \in Workers |-> NoIO]
        /\ tx = [p \in Workers |-> EmptyTx]
        /\ calls = 1
        /\ hist = << [call |-> c, pre |-> Snapshot, res |-> Pending] >>
        /\ reply = NoReply
        /\ rpc = NoRpc
        /\ sent = << >>

NextMix ==
    \/ FollowGetFollower(Writer) /\ Inside
    \/ FollowGetFollowing(Writer) /\ Inside
    \/ FollowBegin(Writer) /\ Inside
    \/ FollowInsert(Writer) /\ Inside
    \/ FollowIncFollowing(Writer) /\ Inside
    \/ FollowIncFollowers(Writer) /\ Inside
    \/ FollowCommit(Writer) /\ Inside
    \/ UnfollowBegin(Writer) /\ Inside
    \/ UnfollowDelete(Writer) /\ Inside
    \/ UnfollowDecFollowing(Writer) /\ Inside
    \/ UnfollowDecFollowers(Writer) /\ Inside
    \/ UnfollowCommit(Writer) /\ Inside
    \/ Cancel(Writer, ContextCanceled) /\ Inside
    \/ \E u \in Users : QueryUser(u)
    \/ \E op \in {"GetFollowers", "GetFollowing"}, u \in Users : ListCount(op, u, NumUsers, 0)
    \/ ListPage

SpecMix == InitMix /\ [][NextMix]_vars

----------------------------------------------------------------------------
\* Claims.

IsFollow(c, a, b) == c = [op |-> "Follow", follower |-> a, following |-> b]
IsUnfollow(c, a, b) == c = [op |-> "Unfollow", follower |-> a, following |-> b]

\* The last call hist holds has returned.
LastReturned == Len(hist) >= 1 /\ hist[Len(hist)].res # Pending
\* hist holds two calls, the second made right after the first, both returned.
TwoReturned == Len(hist) = 2 /\ hist[2].res # Pending

\* C1: in every committed store state reached by any interleaving of Follow
\* and Unfollow calls, for every user u, followers_count(u) is the number of
\* follows rows (x, u) and following_count(u) the number of rows (u, x).
CountersMatchEdges ==
    \A u \in Users :
        /\ followers_count[u] = RowsTo(follows, u)
        /\ following_count[u] = RowsFrom(follows, u)

\* An Unfollow has committed and a user still has a follower.
CountersMatchEdgesWitness ==
    \E p \in Workers, u \in Users :
        /\ pc[p] = "idle"
        /\ call[p].op = "Unfollow"
        /\ result[p] = NoError
        /\ followers_count[u] >= 1

\* C2: two concurrent Follow(A,B) calls for existing distinct users, started
\* with no row (A,B) and without storage failures: once both have returned,
\* exactly one returned nil and the other ErrAlreadyFollowing, there is one
\* row (A,B), and following_count(A) and followers_count(B) are 1 higher.
RaceHasOneWinner ==
    (\A p \in RaceWorkers : pc[p] = "idle") =>
        LET c == hist[1].call
            pre == hist[1].pre
        IN  /\ \E w \in RaceWorkers :
                  /\ result[w] = NoError
                  /\ \A l \in RaceWorkers \ {w} : result[l] = ErrAlreadyFollowing
            /\ follows[<<c.follower, c.following>>] = 1
            /\ following_count[c.follower] = pre.following_count[c.follower] + 1
            /\ followers_count[c.following] = pre.followers_count[c.following] + 1

\* Both calls have returned, and the one that lost had opened its transaction.
RaceHasOneWinnerWitness ==
    /\ \A p \in RaceWorkers : pc[p] = "idle"
    /\ \E l \in RaceWorkers : result[l] = ErrAlreadyFollowing /\ io[l].began

\* The labels of a call whose transaction is open.
InTx == {"f_insert", "f_inc_following", "f_inc_followers", "f_commit",
         "u_delete", "u_dec_following", "u_dec_followers", "u_commit"}

\* The whole effect of p's call on the committed store, and nothing else.
WholeEffect(p) ==
    LET d == IF call[p].op = "Follow" THEN 1 ELSE -1 IN
    /\ follows' = [follows EXCEPT ![edge(p)] = @ + d]
    /\ following_count' = [following_count EXCEPT ![call[p].follower] = @ + d]
    /\ followers_count' = [followers_count EXCEPT ![call[p].following] = @ + d]

\* C3: a call that leaves its open transaction either returns nil and has
\* committed its whole effect, or returns an error and leaves the committed
\* rows and counters as they were; and the committed store changes in no
\* other step, so no partial effect is ever committed.
FailedCallChangesNothing ==
    [][/\ \A p \in Workers :
              (pc[p] \in InTx /\ pc'[p] = "idle") =>
                  IF result'[p] = NoError THEN WholeEffect(p) ELSE store' = store
       /\ store' # store =>
              \E p \in Workers :
                  pc[p] \in InTx /\ pc'[p] = "idle" /\ result'[p] = NoError]_vars

\* A Follow failed at COMMIT, after its insert and both counter updates, and
\* its row is not in the table.
FailedCallChangesNothingWitness ==
    \E p \in Workers :
        /\ pc[p] = "idle"
        /\ call[p].op = "Follow"
        /\ result[p] = Wrap("failed to commit transaction", DriverFailure)
        /\ follows[edge(p)] = 0

\* C4: a call Follow(X,X), for a user's id or any other id, has returned
\* ErrSelfFollow in the step it arrived, with no query sent and no
\* transaction opened; and the step in which a call arrives leaves the
\* committed rows and counters unchanged.
SelfFollowRejected ==
    /\ [](\A p \in Workers :
              (call[p].op = "Follow" /\ call[p].follower = call[p].following) =>
                  /\ pc[p] = "idle"
                  /\ result[p] = ErrSelfFollow
                  /\ io[p] = NoIO
                  /\ tx[p] = EmptyTx)
    /\ [][calls' # calls => store' = store]_vars

\* One worker was refused Follow(X,X) for a user X, another for an id that
\* belongs to no user.
SelfFollowRejectedWitness ==
    \E p, q \in Workers :
        /\ call[p].op = "Follow" /\ call[q].op = "Follow"
        /\ call[p].follower = call[p].following /\ call[p].follower \in Users
        /\ call[q].follower = call[q].following /\ call[q].follower \notin Users
        /\ result[p] = ErrSelfFollow /\ result[q] = ErrSelfFollow

\* C5: in every committed state the follows table holds no row whose
\* follower is its following, at most one row per ordered pair, and only
\* rows whose two endpoints are users.
EdgeSetWellFormed ==
    \A e \in Edges :
        follows[e] > 0 =>
            /\ e[1] # e[2]
            /\ follows[e] = 1
            /\ e[1] \in Users
            /\ e[2] \in Users

\* A second insert of a committed row was refused and the row is there once.
EdgeSetWellFormedWitness ==
    \E p \in Workers :
        /\ pc[p] = "idle"
        /\ result[p] = ErrAlreadyFollowing
        /\ follows[edge(p)] = 1

\* C6: in a sequential run without storage failures, Follow(A,B) with A # B
\* and A or B not a user's id never opens a transaction, and once returned it
\* has returned ErrUserNotFound and the committed store is as before the call.
UnknownUserRejected ==
    Len(hist) >= 1 =>
        LET h == hist[Len(hist)] IN
        (/\ h.call.op = "Follow"
         /\ h.call.follower # h.call.following
         /\ (h.call.follower \notin Users \/ h.call.following \notin Users)) =>
            /\ ~io[SeqWorker].began
            /\ tx[SeqWorker] = EmptyTx
            /\ h.res # Pending => (h.res = ErrUserNotFound /\ Snapshot = h.pre)

\* Follow(A,B) with A a user and B no user has returned, after two reads.
UnknownUserRejectedWitness ==
    /\ LastReturned
    /\ hist[Len(hist)].call.op = "Follow"
    /\ hist[Len(hist)].call.follower \in Users
    /\ hist[Len(hist)].call.following \notin Users
    /\ hist[Len(hist)].res = ErrUserNotFound
    /\ io[SeqWorker].queries = 2

\* C7: Follow(A,B) called twice in a row for distinct users A, B with no
\* row (A,B) before: the first returns nil, the second ErrAlreadyFollowing;
\* afterwards there is one row (A,B), following_count(A) and
\* followers_count(B) are 1 higher than before the first call, and the
\* second call changed nothing.
SecondFollowRejected ==
    TwoReturned =>
        LET h1 == hist[1]
            h2 == hist[2]
            a == h1.call.follower
            b == h1.call.following
        IN  (/\ IsFollow(h1.call, a, b) /\ IsFollow(h2.call, a, b)
             /\ a # b /\ a \in Users /\ b \in Users
             /\ h1.pre.follows[<<a, b>>] = 0) =>
                /\ h1.res = NoError
                /\ h2.res = ErrAlreadyFollowing
                /\ follows[<<a, b>>] = 1
                /\ following_count[a] = h1.pre.following_count[a] + 1
                /\ followers_count[b] = h1.pre.followers_count[b] + 1
                /\ Snapshot = h2.pre

\* The second of two Follow calls for one pair was refused.
SecondFollowRejectedWitness ==
    /\ TwoReturned
    /\ hist[1].call = hist[2].call
    /\ hist[1].call.op = "Follow"
    /\ hist[1].res = NoError
    /\ hist[2].res = ErrAlreadyFollowing
    /\ hist[1].pre.followers_count[hist[1].call.following] = 1

\* C8: in a sequential run without storage failures, Unfollow(A,B) called
\* when there is no row (A,B), for any ids A and B (equal ones and ids of no
\* user included), returns ErrNotFollowing and leaves every row and every
\* counter as it was.
UnfollowOfNoEdgeRejected ==
    LastReturned =>
        LET h == hist[Len(hist)] IN
        (/\ h.call.op = "Unfollow"
         /\ h.pre.follows[<<h.call.follower, h.call.following>>] = 0) =>
            /\ h.res = ErrNotFollowing
            /\ Snapshot = h.pre

\* Unfollow(A,B) of two users with no row (A,B) was refused while A follows
\* someone else.
UnfollowOfNoEdgeRejectedWitness ==
    /\ LastReturned
    /\ LET h == hist[Len(hist)] IN
       /\ h.call.op = "Unfollow"
       /\ h.call.follower \in Users /\ h.call.following \in Users
       /\ h.call.follower # h.call.following
       /\ h.res = ErrNotFollowing
       /\ following_count[h.call.follower] = 1

\* C9: in a sequential run, Follow(A,B) for distinct users with no row
\* (A,B), followed at once by Unfollow(A,B): both return nil and the
\* committed rows and counters are those before the Follow.
FollowUnfollowRoundTrip ==
    TwoReturned =>
        LET h1 == hist[1]
            h2 == hist[2]
            a == h1.call.follower
            b == h1.call.following
        IN  (/\ IsFollow(h1.call, a, b) /\ IsUnfollow(h2.call, a, b)
             /\ a # b /\ a \in Users /\ b \in Users
             /\ h1.pre.follows[<<a, b>>] = 0) =>
                /\ h1.res = NoError
                /\ h2.res = NoError
                /\ Snapshot = h1.pre

\* A round trip made in a store that already held the row (B,A).
FollowUnfollowRoundTripWitness ==
    /\ TwoReturned
    /\ hist[1].call.op = "Follow" /\ hist[2].call.op = "Unfollow"
    /\ hist[1].call.follower = hist[2].call.follower
    /\ hist[1].call.following = hist[2].call.following
    /\ hist[1].res = NoError /\ hist[2].res = NoError
    /\ hist[1].pre.follows[<<hist[1].call.following, hist[1].call.follower>>] = 1

\* C10: in a sequential run without storage failures, for distinct users A
\* and B: Follow(A,B) returns nil when there was no row (A,B) and
\* ErrAlreadyFollowing when there was one, and leaves one row; Unfollow(A,B)
\* returns nil when there was a row and ErrNotFollowing when there was none,
\* and leaves no row; and no call changes whether a row exists for any pair
\* other than its own.
PairStateMachine ==
    LastReturned =>
        LET h == hist[Len(hist)]
            e == <<h.call.follower, h.call.following>>
            had == h.pre.follows[e] > 0
        IN  /\ (e \in UserEdges /\ h.call.op = "Follow") =>
                    /\ h.res = IF had THEN ErrAlreadyFollowing ELSE NoError
                    /\ follows[e] = 1
            /\ (e \in UserEdges /\ h.call.op = "Unfollow") =>
                    /\ h.res = IF had THEN NoError ELSE ErrNotFollowing
                    /\ follows[e] = 0
            /\ \A o \in Edges \ {e} : (follows[o] > 0) = (h.pre.follows[o] > 0)

\* An Unfollow took a pair from Following back to Unrelated while another
\* pair stayed in Following.
PairStateMachineWitness ==
    /\ LastReturned
    /\ LET h == hist[Len(hist)]
           e == <<h.call.follower, h.call.following>>
       IN  /\ h.call.op = "Unfollow"
           /\ h.res = NoError
           /\ h.pre.follows[e] = 1
           /\ follows[e] = 0
           /\ \E o \in UserEdges \ {e} : follows[o] = 1

\* The change the calls of S that have returned nil made to the counter of
\* user u on one side of their pairs ("follower" or "following").
RECURSIVE CommittedChange(_, _, _)
CommittedChange(S, u, side) ==
    IF S = {} THEN 0
    ELSE LET p == CHOOSE x \in S : TRUE
             mine == IF side = "follower" THEN call[p].follower = u
                     ELSE call[p].following = u
         IN  (IF pc[p] = "idle" /\ result[p] = NoError /\ mine
              THEN (IF call[p].op = "Follow" THEN 1 ELSE -1)
              ELSE 0)
             + CommittedChange(S \ {p}, u, side)

\* C11: no counter update is lost between concurrent calls that touch the
\* same user's counter: at every moment of every interleaving of the two
\* calls, each committed counter is its value when the calls arrived, plus
\* one per Follow that has returned nil, minus one per Unfollow that has
\* returned nil, counted over the calls whose pair names that user on that
\* side.
NoLostCounterUpdate ==
    \A u \in Users :
        /\ followers_count[u] = hist[1].pre.followers_count[u]
                                  + CommittedChange(RaceWorkers, u, "following")
        /\ following_count[u] = hist[1].pre.following_count[u]
                                  + CommittedChange(RaceWorkers, u, "follower")

\* Follow(A,C) and Follow(B,C) for distinct A and B have both opened their
\* transactions and returned nil, and followers_count(C) is 2 higher.
NoLostCounterUpdateWitness ==
    /\ \A p \in RaceWorkers :
           pc[p] = "idle" /\ call[p].op = "Follow" /\ result[p] = NoError /\ io[p].began
    /\ \E p, q \in RaceWorkers :
           /\ call[p].follower # call[q].follower
           /\ call[p].following = call[q].following
           /\ followers_count[call[p].following]
                  = hist[1].pre.followers_count[call[p].following] + 2

\* C12: two concurrent calls for the same ordered pair, each a Follow or an
\* Unfollow, are serializable: once both have returned, the two results and
\* the committed rows and counters are those of running the two calls alone,
\* one after the other, in one of the two orders.
SamePairSerializable ==
    (/\ \A p \in RaceWorkers : pc[p] = "idle"
     /\ \A p, q \in RaceWorkers : edge(p) = edge(q))
    => \E p, q \in RaceWorkers :
           /\ p # q
           /\ LET first == RunAlone(hist[1].pre, call[p])
                  second == RunAlone(first.st, call[q])
              IN  /\ result[p] = first.res
                  /\ result[q] = second.res
                  /\ Snapshot = second.st

\* A Follow and an Unfollow for one pair that held a row have both returned
\* nil: the Follow's INSERT waited for the Unfollow's DELETE to commit.
SamePairSerializableWitness ==
    /\ \A p \in RaceWorkers : pc[p] = "idle" /\ result[p] = NoError
    /\ \E p, q \in RaceWorkers :
           /\ call[p].op = "Follow"
           /\ call[q].op = "Unfollow"
           /\ edge(p) = edge(q)
           /\ hist[1].pre.follows[edge(p)] = 1
           /\ follows[edge(p)] = 1

\* The errors of the domain.
DomainErrors == {ErrUserNotFound, ErrSelfFollow, ErrAlreadyFollowing, ErrNotFollowing}

NonPositiveId(r) ==
    /\ r.method \in {"Follow", "Unfollow", "GetFollowers", "GetFollowing", "GetUser"}
    /\ \/ r.req.a <= 0
       \/ r.method \in {"Follow", "Unfollow"} /\ r.req.b <= 0

\* C15: a Follow, Unfollow, GetFollowers, GetFollowing or GetUser request
\* with a user id that is not positive is answered in the step it arrives
\* with InvalidArgument, and the repository is not called: no call starts,
\* no query is sent, no transaction begins, no list query answers, and the
\* tables stay as they were.
NonPositiveIdRefused ==
    [][(rpc.phase = "done" /\ calls' # calls /\ NonPositiveId(rpc')) =>
          /\ rpc'.phase = "done"
          /\ rpc'.code = "InvalidArgument"
          /\ ~rpc'.called
          /\ reply' = NoReply
          /\ UNCHANGED <<store, created_at, pc, call, result, io, tx>>]_vars

\* After a Follow that committed, Unfollow with following_id 0 was refused,
\* and the row is still there.
NonPositiveIdRefusedWitness ==
    /\ rpc.phase = "done"
    /\ rpc.method = "Unfollow"
    /\ rpc.req.a \in Users
    /\ rpc.req.b = 0
    /\ rpc.code = "InvalidArgument"
    /\ \E e \in Edges : e[1] = rpc.req.a /\ follows[e] = 1

\* The request is a list request that the server passed to the repository.
ListRequestPassed ==
    /\ rpc.phase = "done"
    /\ rpc.called
    /\ rpc.method \in {"ListUsers", "GetFollowers", "GetFollowing"}

\* C16, as claimed: the server passes a list request on with limit 20 for a
\* limit <= 0, limit 100 for a limit above 100, the limit itself otherwise,
\* and offset 0 for a negative offset; the repository's query takes the
\* limit and offset it is passed.
LimitAboveMaxIsCapped ==
    ListRequestPassed =>
        /\ rpc.passed.limit = (IF rpc.req.limit <= 0 THEN DefaultLimit
                               ELSE IF rpc.req.limit > MaxLimit THEN MaxLimit
                               ELSE rpc.req.limit)
        /\ rpc.passed.offset = Max(0, rpc.req.offset)
        /\ reply.limit = rpc.passed.limit
        /\ reply.offset = rpc.passed.offset

\* C16, amended: a limit above 100 is replaced by the default 20, as a limit
\* <= 0 is; a limit in 1..100 is passed as it is, a negative offset as 0, and
\* the repository's query takes the limit and offset it is passed.
LimitOutOfRangeIsDefault ==
    ListRequestPassed =>
        /\ rpc.passed.limit = (IF rpc.req.limit <= 0 \/ rpc.req.limit > MaxLimit
                               THEN DefaultLimit
                               ELSE rpc.req.limit)
        /\ rpc.passed.limit \in 1..MaxLimit
        /\ rpc.passed.offset = Max(0, rpc.req.offset)
        /\ reply.limit = rpc.passed.limit
        /\ reply.offset = rpc.passed.offset

\* GetFollowers with limit 101 and offset -1 was passed on with 20 and 0.
LimitOutOfRangeIsDefaultWitness ==
    /\ ListRequestPassed
    /\ rpc.method = "GetFollowers"
    /\ rpc.req.limit = MaxLimit + 1
    /\ rpc.req.offset = -1
    /\ reply.limit = DefaultLimit
    /\ reply.offset = 0
    /\ rpc.code = "OK"

\* The kind of an error of the repository: one of the four domain errors,
\* or Internal.
Kind(err) ==
    CASE err = ErrUserNotFound -> "UserNotFound"
      [] err = ErrSelfFollow -> "SelfFollow"
      [] err = ErrAlreadyFollowing -> "AlreadyFollowing"
      [] err = ErrNotFollowing -> "NotFollowing"
      [] OTHER -> "Internal"

\* C17, as claimed: two errors of the same kind are answered with the same
\* status code, two errors of different kinds with different status codes.
ErrorKindsMapOneToOne ==
    \A i, j \in 1..Len(sent) :
        (Kind(sent[i].err) = Kind(sent[j].err))
            <=> (sent[i].status.code = sent[j].status.code)

\* C17, amended: two errors of the same kind are answered with the same
\* status code; two errors of different kinds are answered with statuses
\* that differ in code or message, and with different codes unless the
\* kinds are UserNotFound and NotFollowing, which are both answered NotFound.
ErrorKindsMapToDistinctStatuses ==
    \A i, j \in 1..Len(sent) :
        LET ki == Kind(sent[i].err)
            kj == Kind(sent[j].err)
        IN  /\ ki = kj => sent[i].status.code = sent[j].status.code
            /\ ki # kj => sent[i].status # sent[j].status
            /\ (ki # kj /\ {ki, kj} # {"UserNotFound", "NotFollowing"})
                   => sent[i].status.code # sent[j].status.code
            /\ {ki, kj} = {"UserNotFound", "NotFollowing"}
                   => sent[i].status.code = "NotFound" /\ sent[j].status.code = "NotFound"

\* ErrUserNotFound and ErrNotFollowing were both answered NotFound, with
\* different messages.
ErrorKindsMapToDistinctStatusesWitness ==
    /\ Len(sent) = 2
    /\ sent[1].err = ErrUserNotFound
    /\ sent[2].err = ErrNotFollowing
    /\ sent[1].status.code = sent[2].status.code
    /\ sent[1].status.msg # sent[2].status.msg

\* C18: the answer to an error of kind Internal does not depend on the
\* error: any two such errors, whatever their texts, are answered by a
\* method with the same status, code Internal, whose message is neither
\* error's storage text; the methods that answer through mapError all send
\* one status, ListUsers its own.
InternalAnswerIsOpaque ==
    \A i, j \in 1..Len(sent) :
        (/\ Kind(sent[i].err) = "Internal"
         /\ Kind(sent[j].err) = "Internal"
         /\ (sent[i].method = "ListUsers") = (sent[j].method = "ListUsers")) =>
            /\ sent[i].status = sent[j].status
            /\ sent[i].status.code = "Internal"
            /\ sent[i].status.msg \notin {sent[i].err.cause, sent[j].err.cause}

\* ListUsers has answered two failures of different statements with
\* different storage texts.
InternalAnswerIsOpaqueWitness ==
    /\ Len(sent) = 2
    /\ sent[1].method = "ListUsers"
    /\ sent[2].method = "ListUsers"
    /\ sent[1].err.msg # sent[2].err.msg
    /\ sent[1].err.cause # sent[2].err.cause
    /\ sent[1].status.code = "Internal"

\* C19: a request answered with Internal has left a log entry while it was
\* handled.
InternalAnswerIsLogged ==
    (rpc.phase = "done" /\ rpc.code = "Internal") => rpc.logs # {}

\* C20: a Follow(A,B) that returns nil changes the committed store in one
\* step, its COMMIT, and changes three things: row (A,B) appears,
\* following_count(A) and followers_count(B) grow by 1; an Unfollow(A,B) that
\* returns nil removes the row and lowers the same two counters by 1.  Every
\* other row and every other counter, followers_count(A) and
\* following_count(B) among them, and the set of users rows stay as they
\* were; and the store changes in no step but such a COMMIT.
SuccessChangesThreeThings ==
    [][/\ \A p \in Workers :
              (pc[p] \in {"f_commit", "u_commit"} /\ pc'[p] = "idle" /\ result'[p] = NoError) =>
                  LET a == call[p].follower
                      b == call[p].following
                      isFollow == call[p].op = "Follow"
                      d == IF isFollow THEN 1 ELSE -1
                  IN  /\ follows[<<a, b>>] = (IF isFollow THEN 0 ELSE 1)
                      /\ follows'[<<a, b>>] = (IF isFollow THEN 1 ELSE 0)
                      /\ following_count'[a] = following_count[a] + d
                      /\ followers_count'[b] = followers_count[b] + d
                      /\ \A e \in Edges \ {<<a, b>>} : follows'[e] = follows[e]
                      /\ \A u \in Users \ {a} : following_count'[u] = following_count[u]
                      /\ \A u \in Users \ {b} : followers_count'[u] = followers_count[u]
                      /\ DOMAIN followers_count' = DOMAIN followers_count
                      /\ DOMAIN following_count' = DOMAIN following_count
       /\ store' # store =>
              \E p \in Workers :
                  pc[p] \in {"f_commit", "u_commit"} /\ result'[p] = NoError]_vars

\* A Follow(A,B) has returned nil while row (B,A) and its counters stand as
\* they stood when the call arrived.
SuccessChangesThreeThingsWitness ==
    \E p \in RaceWorkers :
        LET a == call[p].follower
            b == call[p].following
        IN  /\ pc[p] = "idle"
            /\ call[p].op = "Follow"
            /\ result[p] = NoError
            /\ follows[<<a, b>>] = 1
            /\ follows[<<b, a>>] = 1
            /\ hist[1].pre.follows[<<b, a>>] = 1
            /\ followers_count[a] = hist[1].pre.followers_count[a]
            /\ following_count[b] = hist[1].pre.following_count[b]
            /\ followers_count[b] = hist[1].pre.followers_count[b] + 1

\* C22, as claimed: a call is never made to fail by a concurrent call for
\* another ordered pair: of two concurrent calls for different pairs, each
\* returns what it returns when it runs alone on the store it arrived in
\* (nil for Follow(A,B) with Follow(B,A) and no row between A and B), and
\* once both have returned the store holds the changes of both.
OtherPairNeverFailsCall ==
    (\A p, q \in RaceWorkers : p # q => edge(p) # edge(q)) =>
        /\ \A p \in RaceWorkers :
               pc[p] = "idle" => result[p] = RunAlone(hist[1].pre, call[p]).res
        /\ (\A p \in RaceWorkers : pc[p] = "idle") =>
               \E p, q \in RaceWorkers :
                   /\ p # q
                   /\ Snapshot = RunAlone(RunAlone(hist[1].pre, call[p]).st, call[q]).st

\* C23: under fair scheduling and without cancellation every Follow and
\* Unfollow call eventually returns, whatever runs beside it: calls that
\* wait for each other's users rows (Follow(A,B) with Follow(B,A)) do not
\* wait forever.
EveryCallReturns ==
    \A p \in RaceWorkers : (pc[p] # "idle") ~> (pc[p] = "idle" /\ result[p] # Pending)

\* Follow(A,B) and Follow(B,A) waited for each other's row, and both have
\* returned: one with the detector's error, the other with nil.
EveryCallReturnsWitness ==
    \E p, q \in RaceWorkers :
        /\ p # q
        /\ call[p].op = "Follow" /\ call[q].op = "Follow"
        /\ edge(p) = <<edge(q)[2], edge(q)[1]>>
        /\ pc[p] = "idle" /\ pc[q] = "idle"
        /\ result[p].cause = PqDeadlock.msg
        /\ result[q] = NoError

Visible ==
    IF pc[Writer] = "idle" /\ result[Writer] = NoError
    THEN RunAlone(hist[1].pre, call[Writer]).st
    ELSE hist[1].pre

VisibleRow(row) ==
    /\ row.ID \in Users
    /\ row.FollowersCount = Visible.followers_count[row.ID]
    /\ row.FollowingCount = Visible.following_count[row.ID]
    /\ row.FollowersCount = RowsTo(Visible.follows, row.ID)
    /\ row.FollowingCount = RowsFrom(Visible.follows, row.ID)

\* The users a list query for u returns, as edges of u.
ListedEdges(r) ==
    {IF r.op = "GetFollowers" THEN <<r.users[i].ID, r.userID>>
     ELSE <<r.userID, r.users[i].ID>> : i \in 1..Len(r.users)}

VisibleEdges(r) ==
    {e \in UserEdges : /\ Visible.follows[e] > 0
                       /\ IF r.op = "GetFollowers" THEN e[2] = r.userID
                          ELSE e[1] = r.userID}

\* C21: a single read query running beside a Follow or Unfollow transaction
\* sees no uncommitted and no partial write: the lookup of GetUser, the count
\* query and the page query each answer from the store as it was when the
\* call arrived or, once the call has committed, with the call's edge and both
\* its counter changes; nothing of a call that rolls back is ever seen.
QuerySeesCommittedOnly ==
    [][ reply' # reply =>
          /\ store' = store
          /\ \A i \in 1..Len(reply'.users) : VisibleRow(reply'.users[i])
          /\ (reply'.op = "GetUser") => Len(reply'.users) = 1
          /\ (reply'.op # "GetUser" /\ reply'.err = Pending) =>
                reply'.total = Cardinality(VisibleEdges(reply'))
          /\ (reply'.op # "GetUser" /\ reply'.err # Pending) =>
                /\ reply'.err = NoError
                /\ ListedEdges(reply') = VisibleEdges(reply') ]_vars

\* A list call returned a user whose counter the call of Writer changes, and
\* that call was cancelled at its COMMIT: the row change and both counter
\* changes it had made were rolled back.
QuerySeesCommittedOnlyWitness ==
    /\ reply.op \in {"GetFollowers", "GetFollowing"}
    /\ reply.err = NoError
    /\ \E i \in 1..Len(reply.users) :
          reply.users[i].ID \in {call[Writer].follower, call[Writer].following}
    /\ pc[Writer] = "idle"
    /\ result[Writer] = Wrap("failed to commit transaction", ContextCanceled)

====
